---------------------------- MODULE Spec2Model ----------------------------
(***************************************************************************)
(* Model of image_server/src/main.rs: the recursive media index built by   *)
(* MediaState::new, the random selection of get_random_image, and the      *)
(* open -> decode -> thumbnail -> encode pipeline of get_random_art_handler *)
(* with its mapping of ImageError to HTTP responses.                        *)
(***************************************************************************)
EXTENDS Integers, Sequences, FiniteSets, TLC

(***************************************************************************)
(* Bounds of the model.                                                    *)
(***************************************************************************)
\* entries (files, directories, others) below the root in the indexed tree
MaxEntries == 3

(***************************************************************************)
(* File names, as sequences of characters.  BadByte stands for a byte that *)
(* is not valid UTF-8 (OsStr::to_str returns None on such a name).          *)
(***************************************************************************)
BadByte == "\\xFF"

NamePool ==
    { <<"a", ".", "P", "n", "G">>,
      <<"b", ".", "j", "p", "g">>,
      <<"c", ".", "t", "x", "t">>,
      <<".", "j", "p", "e", "g">>,
      <<BadByte, ".", "p", "n", "g">> }

DirName == <<"s", "u", "b">>

\* const IMAGE_EXTENSION: [&str; 3] = ["png", "jpg", "jpeg"]
IMAGE_EXTENSION ==
    << <<"p", "n", "g">>, <<"j", "p", "g">>, <<"j", "p", "e", "g">> >>

\* char::to_lowercase on the letters the names use
LowerChar(c) ==
    CASE c = "P" -> "p"
      [] c = "N" -> "n"
      [] c = "G" -> "g"
      [] c = "J" -> "j"
      [] c = "E" -> "e"
      [] OTHER -> c

\* a mutant of to_lowercase: the extension is compared as written
to_lowercase_Identity(s) == s

\* str::to_lowercase
to_lowercase(s) == [k \in 1..Len(s) |-> LowerChar(s[k])]

\* OsStr::to_str: Some only for valid UTF-8
IsUtf8(s) == \A k \in 1..Len(s) : s[k] # BadByte

\* position of the last '.' of a name, 0 when there is none
LastDot(s) ==
    LET dots == {k \in 1..Len(s) : s[k] = "."}
    IN  IF dots = {} THEN 0 ELSE CHOOSE k \in dots : \A j \in dots : j <= k

\* Path::extension: None without a '.', or when the only '.' leads the
\* name; otherwise Some of the part after the last '.'
Extension(s) ==
    IF LastDot(s) <= 1
    THEN [some |-> FALSE, ext |-> <<>>]
    ELSE [some |-> TRUE, ext |-> SubSeq(s, LastDot(s) + 1, Len(s))]

Contains(list, x) == \E k \in 1..Len(list) : list[k] = x

(***************************************************************************)
(* Bounds of the serving model.                                            *)
(***************************************************************************)
\* entries below the root in the trees the serving specification starts on
MaxServeEntries == 2
\* requests sent to the service
MaxRequests == 2
\* largest width and height of a decoded image, largest configured resolution
MaxDim == 5
MaxRes == 4

(***************************************************************************)
(* State.                                                                  *)
(***************************************************************************)
VARIABLES
    kind,       \* node -> "dir" | "file" | "other" | "missing" | "none"; node 0 is the root
    parent,     \* entry -> the directory holding it
    name,       \* node -> file name
    failAt,     \* directory -> how its listing fails: "never", "read_dir", "entry"
    content,    \* file -> "valid" | "corrupt" | "noperm" | "unencodable"
    workers,    \* worker threads of the tokio runtime (one per core)
    phase,      \* main: "init" | "serving" | "exited"
    result,     \* value of MediaState::new: "pending", "Ok" or the Err string
    paths,      \* MediaState.paths, each path with the node it names
    log,        \* lines written by error!
    pc,         \* request -> "queued" | "selected" | "done"
    sel,        \* request -> index into paths drawn by get_random_image, 0 before
    resp,       \* request -> the response sent
    nSelect,    \* request -> calls of get_random_image made for it
    nRender,    \* request -> times the pipeline was started for it
    atOpen,     \* request -> what the pipeline found at the selected path
    img,        \* dimensions of the decoded image
    resolution, \* media_config.image.resolution
    thumb       \* dimensions of the thumbnail

fsVars == <<kind, parent, name, failAt, content>>
envVars == <<kind, parent, name, failAt, content, workers>>
mainVars == <<phase, result, paths>>
reqVars == <<pc, sel, resp, nSelect, nRender, atOpen>>
thumbVars == <<img, resolution, thumb>>
vars == <<kind, parent, name, failAt, content, workers, phase, result, paths, log,
          pc, sel, resp, nSelect, nRender, atOpen, img, resolution, thumb>>

Nodes == 0..MaxEntries
Root == 0
Requests == 1..MaxRequests

(***************************************************************************)
(* The filesystem as the walk sees it.                                     *)
(***************************************************************************)
\* Path::is_dir / Path::is_file
is_dir(i) == kind[i] = "dir"
is_file(i) == kind[i] = "file"

\* entries of directory d
Children(d) == {i \in 1..MaxEntries : kind[i] # "none" /\ parent[i] = d}

RECURSIVE SortedSeq(_)
SortedSeq(S) ==
    IF S = {} THEN <<>>
    ELSE LET m == CHOOSE x \in S : \A y \in S : x <= y
         IN  <<m>> \o SortedSeq(S \ {m})

\* fs::read_dir: the entries of d in listing order
read_dir(d) == SortedSeq(Children(d))

\* entries the listing of d yields before it returns Err
YieldedBeforeErr(d) ==
    CASE failAt[d] = "read_dir" -> 0
      [] failAt[d] = "entry" -> IF Len(read_dir(d)) >= 1 THEN 1 ELSE 0
      [] OTHER -> Len(read_dir(d)) + 1

\* the path of node i from the root, as fs::canonicalize returns it
RECURSIVE PathOf(_)
PathOf(i) == IF i = Root THEN <<>> ELSE PathOf(parent[i]) \o <<name[i]>>

\* PathBuf::to_str
PathIsUtf8(p) == \A k \in 1..Len(p) : IsUtf8(p[k])

None == [some |-> FALSE, node |-> Root, path |-> <<>>]

\* get_canonical_path_if_image
get_canonical_path_if_image(i) ==
    IF ~is_file(i) THEN None
    ELSE LET e == Extension(name[i]) IN
         IF ~e.some \/ ~IsUtf8(e.ext) THEN None
         ELSE IF Contains(IMAGE_EXTENSION, to_lowercase(e.ext))
              THEN IF PathIsUtf8(PathOf(i))
                   THEN [some |-> TRUE, node |-> i, path |-> PathOf(i)]
                   ELSE None
              ELSE None

\* the line error! writes for a subdirectory whose walk returned Err
SubdirError(e) == <<"Error accessing subdirectory", e>>

\* a mutant of OnSubdirErr: the Err of a subdirectory is propagated with ?
OnSubdirErr_Propagate(r, e) == [abort |-> ~r.ok, log |-> r.log]

\* if let Err(e) = find_images_recursively(&path, ..) { error!(..) }: the Err
\* of a subdirectory is logged and the loop goes on
OnSubdirErr(r, e) ==
    [abort |-> FALSE, log |-> IF r.ok THEN r.log ELSE r.log \cup {SubdirError(e)}]

\* find_images_recursively: the value is [ok, acc, log]; acc is the
\* accumulator, which keeps what was pushed before an Err
RECURSIVE find_images_recursively(_, _, _), WalkEntries(_, _, _, _)
find_images_recursively(d, acc, lg) ==
    IF ~is_dir(d) THEN [ok |-> TRUE, acc |-> acc, log |-> lg]
    ELSE WalkEntries(d, 1, acc, lg)

\* the for loop over read_dir(d), at its k-th entry
WalkEntries(d, k, acc, lg) ==
    IF YieldedBeforeErr(d) = k - 1
    THEN [ok |-> FALSE, acc |-> acc, log |-> lg]
    ELSE IF k > Len(read_dir(d)) THEN [ok |-> TRUE, acc |-> acc, log |-> lg]
    ELSE LET e == read_dir(d)[k] IN
         IF is_dir(e)
         THEN LET r == find_images_recursively(e, acc, lg)
                  h == OnSubdirErr(r, e)
              IN  IF h.abort THEN [ok |-> FALSE, acc |-> r.acc, log |-> h.log]
                  ELSE WalkEntries(d, k + 1, r.acc, h.log)
         ELSE LET f == get_canonical_path_if_image(e)
              IN  WalkEntries(d, k + 1,
                              IF f.some THEN Append(acc, [node |-> f.node, path |-> f.path])
                              ELSE acc,
                              lg)

\* find_absolute_image_path
find_absolute_image_path(d) == find_images_recursively(d, <<>>, {})

ErrNotADirectory == "Error: Path is not a directory"
ErrEmptyIndex == "Directory does not contain images"
ErrWalkFailed == "No supoorted image found in directory"

\* a mutant of MediaState_new: the paths.is_empty() test is missing
MediaState_new_NoEmptyTest ==
    IF ~is_dir(Root)
    THEN [result |-> ErrNotADirectory, paths |-> <<>>, log |-> {}]
    ELSE LET w == find_absolute_image_path(Root) IN
         IF w.ok
         THEN [result |-> "Ok", paths |-> w.acc, log |-> w.log]
         ELSE [result |-> ErrWalkFailed, paths |-> <<>>, log |-> w.log]

\* MediaState::new: [result, paths, log]
MediaState_new ==
    IF ~is_dir(Root)
    THEN [result |-> ErrNotADirectory, paths |-> <<>>, log |-> {}]
    ELSE LET w == find_absolute_image_path(Root) IN
         IF w.ok
         THEN IF w.acc # <<>>
              THEN [result |-> "Ok", paths |-> w.acc, log |-> w.log]
              ELSE [result |-> ErrEmptyIndex, paths |-> <<>>, log |-> w.log]
         ELSE [result |-> ErrWalkFailed, paths |-> <<>>, log |-> w.log]

\* MediaState::image_count
image_count == Len(paths)

(***************************************************************************)
(* Directory trees the service can be started on.  An entry is drawn as a  *)
(* whole (its kind, name, listing behaviour and content); entries 1..n are  *)
(* present, each inside a directory entered before it.                      *)
(***************************************************************************)
\* listings that do not fail, fail in read_dir, or fail after one entry
FailChoices == {"never", "read_dir", "entry"}

NoEntry == [k |-> "none", nm |-> DirName, fl |-> "never", ct |-> "valid"]

EntryChoices ==
    {[k |-> "file", nm |-> nm, fl |-> "never", ct |-> "valid"] : nm \in NamePool}
    \cup {[k |-> "other", nm |-> DirName, fl |-> "never", ct |-> "valid"]}
    \cup {[k |-> "dir", nm |-> DirName, fl |-> fl, ct |-> "valid"] : fl \in FailChoices}

RootChoices ==
    {[k |-> "dir", nm |-> DirName, fl |-> fl, ct |-> "valid"] : fl \in FailChoices}
    \cup {[k |-> "file", nm |-> DirName, fl |-> "never", ct |-> "valid"],
          [k |-> "missing", nm |-> DirName, fl |-> "never", ct |-> "valid"]}

\* the trees the serving specification starts on: image files of every
\* content, one other file, directories that list
ServeEntryChoices ==
    {[k |-> "file", nm |-> <<"a", ".", "P", "n", "G">>, fl |-> "never", ct |-> ct] :
        ct \in {"valid", "corrupt", "noperm", "unencodable"}}
    \cup {[k |-> "file", nm |-> <<"c", ".", "t", "x", "t">>, fl |-> "never", ct |-> "valid"],
          [k |-> "dir", nm |-> DirName, fl |-> "never", ct |-> "valid"]}

ServeRootChoices ==
    {[k |-> "dir", nm |-> DirName, fl |-> fl, ct |-> "valid"] : fl \in {"never", "read_dir"}}
    \cup {[k |-> "file", nm |-> DirName, fl |-> "never", ct |-> "valid"]}

\* entries 1..n present for some n <= max, none when the root is no directory
WellFormedEntries(root, ent, max) ==
    /\ \A i \in 2..MaxEntries : ent[i] # NoEntry => ent[i-1] # NoEntry
    /\ \A i \in 1..MaxEntries : i > max => ent[i] = NoEntry
    /\ root.k # "dir" => \A i \in 1..MaxEntries : ent[i] = NoEntry

WellFormedParents(ent, par) ==
    \A i \in 1..MaxEntries :
        IF ent[i] = NoEntry THEN par[i] = Root
        ELSE /\ par[i] < i
             /\ par[i] # Root => ent[par[i]].k = "dir"

InitTree(roots, choices, max) ==
    \E root \in roots :
    \E ent \in [1..MaxEntries -> choices \cup {NoEntry}] :
        /\ WellFormedEntries(root, ent, max)
        /\ \E par \in [1..MaxEntries -> 0..(MaxEntries - 1)] :
              /\ WellFormedParents(ent, par)
              /\ kind = [i \in Nodes |-> IF i = Root THEN root.k ELSE ent[i].k]
              /\ parent = [i \in Nodes |-> IF i = Root THEN Root ELSE par[i]]
              /\ name = [i \in Nodes |-> IF i = Root THEN root.nm ELSE ent[i].nm]
              /\ failAt = [i \in Nodes |-> IF i = Root THEN root.fl ELSE ent[i].fl]
              /\ content = [i \in Nodes |-> IF i = Root THEN root.ct ELSE ent[i].ct]

NoResp == [status |-> 0, ctype |-> "", body |-> <<>>, variant |-> "", stage |-> ""]

InitRest ==
    /\ phase = "init"
    /\ result = "pending"
    /\ paths = <<>>
    /\ log = {}
    /\ pc = [r \in Requests |-> "queued"]
    /\ sel = [r \in Requests |-> 0]
    /\ resp = [r \in Requests |-> NoResp]
    /\ nSelect = [r \in Requests |-> 0]
    /\ nRender = [r \in Requests |-> 0]
    /\ atOpen = [r \in Requests |-> ""]

InitNoImage ==
    /\ img = <<1, 1>>
    /\ resolution = 1
    /\ thumb = <<0, 0>>

(***************************************************************************)
(* Startup.                                                                *)
(***************************************************************************)
\* main: match MediaState::new(media_confg); serve on Ok, log and return on Err
Main ==
    /\ phase = "init"
    /\ LET r == MediaState_new IN
          /\ result' = r.result
          /\ paths' = r.paths
          /\ log' = r.log \cup (IF r.result = "Ok" THEN {}
                                ELSE {<<"Failed to load media", r.result>>})
          /\ phase' = IF r.result = "Ok" THEN "serving" ELSE "exited"
    /\ UNCHANGED <<envVars, reqVars, thumbVars>>

(***************************************************************************)
(* Requests.  The handler is an async fn without an await point: once a    *)
(* worker thread of the runtime polls it, it holds that worker until it     *)
(* returns.  Between the selection and the pipeline the file system may      *)
(* change; the pipeline itself works on what it opened.                      *)
(***************************************************************************)
Running(r) == pc[r] = "selected"

BusyWorkers == Cardinality({r \in Requests : Running(r)})

\* a mutant of gen_range: the range 0..image_count-1, which skips the last path
gen_range_SkipsLast(lo, hi) == lo..(hi - 2)

\* rand::thread_rng().gen_range(lo..hi): the indices that can be drawn
gen_range(lo, hi) == lo..(hi - 1)

\* enum ImageError
ImageError_IO(e) == [variant |-> "IO", cause |-> e]
ImageError_Load(e) == [variant |-> "Load", cause |-> e]
ImageError_Encode(e) == [variant |-> "Encode", cause |-> e]

\* a mutant of OpenError: the error of open is wrapped as a Load error
OpenError_AsLoad(e) == ImageError_Load(e)

\* .map_err(ImageError::IO) on ImageReader::open and with_guessed_format
OpenError(e) == ImageError_IO(e)
\* .map_err(ImageError::Load) on decode
DecodeError(e) == ImageError_Load(e)
\* .map_err(ImageError::Encode) on write_to
EncodeError(e) == ImageError_Encode(e)

\* the message into_response formats: its prefix and the error's Display
ErrorMessage(err) ==
    CASE err.variant = "IO" -> <<"Failed during IO image: ", err.cause>>
      [] err.variant = "Load" -> <<"Failed to load image: ", err.cause>>
      [] err.variant = "Encode" -> <<"Failed to encode Image: ", err.cause>>

\* ImageError::into_response: the response, and the line it logs
into_response(err, stage) ==
    [status |-> 500, ctype |-> "text/plain", body |-> ErrorMessage(err),
     variant |-> err.variant, stage |-> stage]

\* Ok(Response::builder().status(OK).header(CONTENT_TYPE, "image/jpeg")..)
OkResponse ==
    [status |-> 200, ctype |-> "image/jpeg", body |-> <<"jpeg">>,
     variant |-> "", stage |-> ""]

\* the handler returns Err(err) from the stage named: the response is sent
\* and the error logged
Fail(r, err, stage) ==
    /\ resp' = [resp EXCEPT ![r] = into_response(err, stage)]
    /\ log' = log \cup {ErrorMessage(err)}
    /\ pc' = [pc EXCEPT ![r] = "done"]
    /\ paths' = paths

\* a mutant of OnPipelineError: the handler selects another path and retries
OnPipelineError_Retry(r, err, stage) ==
    /\ pc' = [pc EXCEPT ![r] = "queued"]
    /\ log' = log \cup {ErrorMessage(err)}
    /\ UNCHANGED <<resp, paths>>

\* a mutant of OnPipelineError: the path that failed is dropped from the index
OnPipelineError_Evict(r, err, stage) ==
    /\ resp' = [resp EXCEPT ![r] = into_response(err, stage)]
    /\ log' = log \cup {ErrorMessage(err)}
    /\ pc' = [pc EXCEPT ![r] = "done"]
    /\ paths' = SubSeq(paths, 1, sel[r] - 1) \o SubSeq(paths, sel[r] + 1, Len(paths))

\* the ? operator of the handler: the first Err ends the request
OnPipelineError(r, err, stage) == Fail(r, err, stage)

\* what the file system holds at the path selected for r
Selected(r) == paths[sel[r]].node

FileState(i) == IF kind[i] # "file" THEN "missing" ELSE content[i]

\* a worker polls the handler of request r: state.get_random_image()
Select(r) ==
    /\ phase = "serving"
    /\ pc[r] = "queued"
    /\ BusyWorkers < workers
    /\ \E k \in gen_range(0, image_count) : sel' = [sel EXCEPT ![r] = k + 1]
    /\ nSelect' = [nSelect EXCEPT ![r] = @ + 1]
    /\ pc' = [pc EXCEPT ![r] = "selected"]
    /\ UNCHANGED <<envVars, mainVars, log, resp, nRender, atOpen, thumbVars>>

\* the rest of the handler, from ImageReader::open to the response: the
\* first stage that fails ends it with its error
Render(r) ==
    /\ pc[r] = "selected"
    /\ nRender' = [nRender EXCEPT ![r] = @ + 1]
    /\ atOpen' = [atOpen EXCEPT ![r] = FileState(Selected(r))]
    /\ CASE FileState(Selected(r)) = "missing" ->
                \* ImageReader::open(path).map_err(ImageError::IO)?
                OnPipelineError(r, OpenError("No such file or directory (os error 2)"), "open")
         [] FileState(Selected(r)) = "noperm" ->
                OnPipelineError(r, OpenError("Permission denied (os error 13)"), "open")
         [] FileState(Selected(r)) = "corrupt" ->
                \* .decode().map_err(ImageError::Load)?
                OnPipelineError(r, DecodeError("Format error decoding Png"), "decode")
         [] FileState(Selected(r)) = "unencodable" ->
                \* thumb.write_to(&mut buffer, ImageFormat::Jpeg).map_err(ImageError::Encode)?
                OnPipelineError(r, EncodeError("The encoder does not support the color type"), "encode")
         [] OTHER ->
                /\ resp' = [resp EXCEPT ![r] = OkResponse]
                /\ pc' = [pc EXCEPT ![r] = "done"]
                /\ UNCHANGED <<log, paths>>
    /\ UNCHANGED <<envVars, phase, result, sel, nSelect, thumbVars>>

\* an indexed file is deleted while the service runs
DeleteFile(i) ==
    /\ phase = "serving"
    /\ kind[i] = "file"
    /\ \E k \in 1..Len(paths) : paths[k].node = i
    /\ kind' = [kind EXCEPT ![i] = "missing"]
    /\ UNCHANGED <<parent, name, failAt, content, workers, mainVars, log, reqVars, thumbVars>>

Init ==
    /\ InitTree(ServeRootChoices, ServeEntryChoices, MaxServeEntries)
    /\ workers \in 1..MaxRequests
    /\ InitRest
    /\ InitNoImage

Next ==
    \/ Main
    \/ \E r \in Requests : Select(r)
    \/ \E r \in Requests : Render(r)
    \/ \E i \in 1..MaxEntries : DeleteFile(i)

Spec == Init /\ [][Next]_vars

(***************************************************************************)
(* The thumbnail's dimensions.  img.thumbnail(nwidth, nheight) of the image *)
(* crate resizes to resize_dimensions(width, height, nwidth, nheight,       *)
(* false): the largest size of the image's aspect ratio inside the box.     *)
(* The crate computes in f64; the ratio is kept here as a fraction.  With    *)
(* fill = false both results are at most the box's side, a u32, so the       *)
(* crate's branches for results above u32::MAX are never taken.               *)
(***************************************************************************)
Max(a, b) == IF a >= b THEN a ELSE b

\* (a / b).round() for a >= 0, b > 0: to the nearest, halves away from zero
RoundDiv(a, b) == (2 * a + b) \div (2 * b)

\* image::math::utils::resize_dimensions with fill = false
resize_dimensions(width, height, nwidth, nheight) ==
    LET \* ratio = min(nwidth / width, nheight / height), as num / den
        byWidth == nwidth * height <= nheight * width
        num == IF byWidth THEN nwidth ELSE nheight
        den == IF byWidth THEN width ELSE height
        nw == Max(RoundDiv(width * num, den), 1)
        nh == Max(RoundDiv(height * num, den), 1)
    IN  <<nw, nh>>

\* let thumb = img.thumbnail(resolution, resolution)
Thumbnail ==
    /\ thumb = <<0, 0>>
    /\ thumb' = resize_dimensions(img[1], img[2], resolution, resolution)
    /\ UNCHANGED <<envVars, mainVars, log, reqVars, img, resolution>>

InitThumb ==
    /\ InitTree({[k |-> "dir", nm |-> DirName, fl |-> "never", ct |-> "valid"]}, {}, 0)
    /\ workers = 1
    /\ InitRest
    /\ img \in (1..MaxDim) \X (1..MaxDim)
    /\ resolution \in 1..MaxRes
    /\ thumb = <<0, 0>>

NextThumb == Thumbnail

SpecThumb == InitThumb /\ [][NextThumb]_vars

InitWalk ==
    /\ InitTree(RootChoices, EntryChoices, MaxEntries)
    /\ workers = 1
    /\ InitRest
    /\ InitNoImage

NextWalk == Main

SpecWalk == InitWalk /\ [][NextWalk]_vars

(***************************************************************************)
(* The index build, stated without the walk.                               *)
(***************************************************************************)
\* the directories above entry i
RECURSIVE Ancestors(_)
Ancestors(i) == IF i = Root THEN {} ELSE {parent[i]} \cup Ancestors(parent[i])

Entries == {i \in 1..MaxEntries : kind[i] # "none"}

IndexedNodes == {paths[k].node : k \in 1..Len(paths)}

Started == phase # "init"

\* s ends with a '.' and ext, compared case-insensitively, after a non-empty stem
HasSuffixCI(s, ext) ==
    /\ Len(s) >= Len(ext) + 1
    /\ s[Len(s) - Len(ext)] = "."
    /\ \A k \in 1..Len(ext) : LowerChar(s[Len(s) - Len(ext) + k]) = ext[k]

SupportedExts == {IMAGE_EXTENSION[k] : k \in 1..Len(IMAGE_EXTENSION)}

\* a regular file with an extension in {png, jpg, jpeg}, case-insensitively
HasImageExtension(i) ==
    kind[i] = "file" /\ \E ext \in SupportedExts : HasSuffixCI(name[i], ext)

\* ... whose name has a stem before the extension and is valid UTF-8
HasProperImageName(i) ==
    /\ kind[i] = "file"
    /\ \E ext \in SupportedExts : HasSuffixCI(name[i], ext) /\ Len(name[i]) > Len(ext) + 1
    /\ \A a \in (Ancestors(i) \cup {i}) \ {Root} : IsUtf8(name[a])

AllListable == is_dir(Root) /\ \A d \in Nodes : kind[d] = "dir" => failAt[d] = "never"

\* entry c is yielded by the listing of its directory before any Err
Yielded(c) ==
    LET d == parent[c]
        pos == Cardinality({j \in Children(d) : j <= c})
    IN  failAt[d] = "never" \/ (failAt[d] = "entry" /\ pos <= 1)

\* entry i is reached by the walk from the root
Visited(i) == \A a \in (Ancestors(i) \cup {i}) \ {Root} : Yielded(a)

WalkYield == {i \in Entries : Visited(i) /\ get_canonical_path_if_image(i).some}

\* C1 as stated: on a tree whose directories can all be listed and that holds
\* N files with an image extension, MediaState::new succeeds with N paths.
C1_AsStated ==
    (Started /\ AllListable) =>
        /\ result = "Ok"
        /\ image_count = Cardinality({i \in Entries : HasImageExtension(i)})

\* C1 amended: on a tree whose directories can all be listed and that holds
\* N >= 1 regular files named <non-empty stem>.<png|jpg|jpeg, any case> with a
\* valid UTF-8 path, and no other file with such an extension, MediaState::new
\* succeeds and image_count() = N.
C1_CountsImages ==
    LET proper == {i \in Entries : HasProperImageName(i)}
    IN  (Started /\ AllListable /\ proper # {}
            /\ \A i \in Entries : HasImageExtension(i) => i \in proper) =>
            /\ result = "Ok"
            /\ image_count = Cardinality(proper)
            /\ IndexedNodes = proper

C1_Witness ==
    /\ phase = "serving"
    /\ AllListable
    /\ \E i \in IndexedNodes : parent[i] # Root /\ name[i] = <<"a", ".", "P", "n", "G">>
    /\ \E i \in Entries : kind[i] = "file" /\ ~HasImageExtension(i)
    /\ \A i \in Entries : HasImageExtension(i) => HasProperImageName(i)

\* C2: MediaState::new fails with NotADirectory when the root is no
\* directory, with WalkFailed when the listing of the root fails, with
\* EmptyIndex when the walk ends with no eligible file, and succeeds with
\* image_count() >= 1 otherwise; the three errors differ and no index built
\* is empty.
C2_Outcome ==
    Started =>
        /\ result = (CASE ~is_dir(Root) -> ErrNotADirectory
                       [] is_dir(Root) /\ failAt[Root] # "never" -> ErrWalkFailed
                       [] is_dir(Root) /\ failAt[Root] = "never" /\ WalkYield = {} -> ErrEmptyIndex
                       [] OTHER -> "Ok")
        /\ Cardinality({ErrNotADirectory, ErrWalkFailed, ErrEmptyIndex, "Ok"}) = 4
        /\ result = "Ok" <=> phase = "serving"
        /\ result = "Ok" => image_count >= 1
        /\ result # "Ok" => image_count = 0

C2_Witness ==
    /\ phase = "exited"
    /\ result = ErrEmptyIndex
    /\ \E i \in Entries : get_canonical_path_if_image(i).some /\ ~Visited(i)
    /\ \E i \in Entries : kind[i] = "file" /\ parent[i] = Root

\* C3: a failing listing of a directory below the root never fails the
\* build, and every eligible file whose directories all list is indexed.
C3_LocalRecovery ==
    (Started /\ is_dir(Root) /\ failAt[Root] = "never") =>
        /\ result # ErrWalkFailed
        /\ \A i \in Entries :
              (get_canonical_path_if_image(i).some
                 /\ \A a \in Ancestors(i) : failAt[a] = "never") =>
                  (result = "Ok" /\ i \in IndexedNodes)

C3_Witness ==
    /\ phase = "serving"
    /\ \E d \in Entries, g \in IndexedNodes :
          /\ kind[d] = "dir" /\ failAt[d] = "read_dir" /\ parent[d] = Root
          /\ parent[g] # Root /\ parent[g] > d
          /\ failAt[parent[g]] = "never"
    /\ \E e \in log : e[1] = "Error accessing subdirectory"

(***************************************************************************)
(* Requests.                                                               *)
(***************************************************************************)
Done(r) == pc[r] = "done"

Prefixes == {"Failed during IO image: ", "Failed to load image: ", "Failed to encode Image: "}

\* C4: a failure to open or read yields the IO error, a failure to decode
\* the Load error, a failure to encode the Encode error; each is a 500 whose
\* body starts with the message of its kind, the three messages differ, and a
\* request whose stages all succeed gets 200 with Content-Type image/jpeg.
C4_StageToKind ==
    \A r \in Requests : Done(r) =>
        /\ atOpen[r] \in {"missing", "noperm"} <=>
              (resp[r].status = 500 /\ resp[r].stage = "open" /\ resp[r].variant = "IO"
                 /\ resp[r].body[1] = "Failed during IO image: ")
        /\ atOpen[r] = "corrupt" <=>
              (resp[r].status = 500 /\ resp[r].stage = "decode" /\ resp[r].variant = "Load"
                 /\ resp[r].body[1] = "Failed to load image: ")
        /\ atOpen[r] = "unencodable" <=>
              (resp[r].status = 500 /\ resp[r].stage = "encode" /\ resp[r].variant = "Encode"
                 /\ resp[r].body[1] = "Failed to encode Image: ")
        /\ atOpen[r] = "valid" <=> (resp[r].status = 200 /\ resp[r].ctype = "image/jpeg")
        /\ resp[r].status \in {200, 500}
        /\ Cardinality(Prefixes) = 3

C4_Witness ==
    \E r1, r2 \in Requests :
        /\ Done(r1) /\ resp[r1].variant = "Load" /\ resp[r1].status = 500
        /\ Done(r2) /\ resp[r2].variant = "Encode" /\ resp[r2].status = 500

\* C5: a request selects a path once and starts the pipeline at most once;
\* a request whose pipeline failed has ended with a 500, having selected once.
C5_NoRetry ==
    \A r \in Requests :
        /\ nSelect[r] <= 1
        /\ nRender[r] <= 1
        /\ nRender[r] <= nSelect[r]
        /\ Done(r) => (nSelect[r] = 1 /\ nRender[r] = 1)
        /\ (atOpen[r] \notin {"", "valid"} /\ ~Running(r)) => (Done(r) /\ resp[r].status = 500)

C5_Witness ==
    \E r \in Requests :
        /\ Done(r) /\ resp[r].status = 500 /\ nSelect[r] = 1
        /\ \E k \in 1..Len(paths) : FileState(paths[k].node) = "valid"

\* C6 as stated: two failed requests of the same failure kind receive the
\* same body, whatever the cause.
C6_BodyByKindOnly ==
    \A r1, r2 \in Requests :
        (Done(r1) /\ Done(r2) /\ resp[r1].status = 500 /\ resp[r2].status = 500
            /\ resp[r1].variant = resp[r2].variant) =>
            resp[r1].body = resp[r2].body

\* what C7 says of the responses: a request that found its file missing gets
\* a 500, one that found a valid image gets a 200
C7_Responses ==
    \A r \in Requests : Done(r) =>
        /\ atOpen[r] = "missing" => resp[r].status = 500
        /\ atOpen[r] = "valid" => resp[r].status = 200
        /\ resp[r].status = 500 => atOpen[r] # "valid"

\* C7: once the service runs, no step of a request or of the file system
\* changes the index; a deleted file stays indexed, only a request that finds
\* its file missing (or unusable) gets a 500, and every request that finds a
\* valid image gets a 200.
C7_IndexImmutable ==
    [][ /\ C7_Responses'
        /\ phase = "serving" => paths' = paths ]_vars

C7_Witness ==
    \E r1, r2 \in Requests, k \in 1..Len(paths) :
        /\ kind[paths[k].node] = "missing"
        /\ Done(r1) /\ sel[r1] = k /\ resp[r1].status = 200
        /\ Done(r2) /\ sel[r2] = k /\ resp[r2].status = 500 /\ atOpen[r2] = "missing"

\* C9 as stated: a request that waits to be started can be started, however
\* many other requests are in their pipelines.
C9_NeverBlocked ==
    \A r \in Requests :
        (phase = "serving" /\ pc[r] = "queued") => BusyWorkers < workers

\* C10: get_random_image runs only on an index of at least one path, draws
\* an index inside it, returns a path of the index, and can return each one.
C10_Selection ==
    /\ phase = "serving" => image_count >= 1
    /\ \A r \in Requests :
          /\ nSelect[r] >= 1 => (phase = "serving" /\ image_count >= 1)
          /\ pc[r] # "queued" =>
                /\ sel[r] - 1 \in 0..(image_count - 1)
                /\ \E k \in 1..Len(paths) : paths[k] = paths[sel[r]]
          /\ (phase = "serving" /\ pc[r] = "queued" /\ BusyWorkers < workers) =>
                \A k \in 1..Len(paths) : ENABLED (Select(r) /\ sel'[r] = k)

C10_Witness ==
    /\ image_count >= 2
    /\ \E r1, r2 \in Requests :
          /\ pc[r1] # "queued" /\ pc[r2] # "queued"
          /\ sel[r1] = 1 /\ sel[r2] = image_count

(***************************************************************************)
(* The thumbnail.                                                          *)
(***************************************************************************)
\* C8 as stated: the thumbnail fits the box, keeps the aspect ratio within a
\* pixel, has its longest side equal to R when the image is larger than the
\* box, and has the image's own dimensions when the image fits the box.
C8_ThumbnailNeverUpscales ==
    LET W == img[1]
        H == img[2]
        R == resolution
        tw == thumb[1]
        th == thumb[2]
    IN  thumb # <<0, 0>> =>
            /\ tw <= R /\ th <= R
            /\ (IF W >= H THEN th * W - tw * H ELSE tw * H - th * W) \in (0 - Max(W, H))..Max(W, H)
            /\ Max(W, H) > R => Max(tw, th) = R
            /\ (W <= R /\ H <= R) => thumb = img

=============================================================================
